---- MODULE Spec2Model ----
(***************************************************************************)
(* Model of app/lib/data.ts: the eight query functions of the dashboard   *)
(* data-access layer, the shared postgres connection they use, and the    *)
(* database tables they read.                                             *)
(*                                                                         *)
(* Text is modelled as a sequence of one-character strings so that LIKE   *)
(* patterns, casts to text and the client's textual bigint values are     *)
(* computed rather than assumed.                                          *)
(***************************************************************************)
EXTENDS Integers, Sequences, FiniteSets

(***************************************************************************)
(* Bounds of the model.                                                   *)
(***************************************************************************)
\* largest number of rows of the invoices table
MaxInvoices == 7
\* largest page number a caller asks for
MaxPage == 3

(***************************************************************************)
(* Program constants.                                                     *)
(***************************************************************************)
ITEMS_PER_PAGE == 6
\* LIMIT of fetchLatestInvoices
LATEST_LIMIT == 5

(***************************************************************************)
(* Text.                                                                  *)
(***************************************************************************)
Digits == <<"0", "1", "2", "3", "4", "5", "6", "7", "8", "9">>

\* collation order of the characters that occur in the tables
Alphabet == <<"-", ".", "0", "1", "2", "3", "4", "5", "6", "7", "8", "9", "@",
              "_", "a", "A", "b", "B", "d", "e", "g", "i", "l", "L", "n", "o",
              "O", "p", "P", "x", "y", "z">>

CharRank(c) == CHOOSE i \in 1..Len(Alphabet) : Alphabet[i] = c

\* lower(c), as ILIKE folds case
LowerChar(c) ==
  CASE c = "A" -> "a"
    [] c = "B" -> "b"
    [] c = "L" -> "l"
    [] c = "O" -> "o"
    [] c = "P" -> "p"
    [] OTHER -> c

Lower(s) == [i \in 1..Len(s) |-> LowerChar(s[i])]

RECURSIVE IntToText(_)
\* integer::text for a non-negative integer
IntToText(n) ==
  IF n < 10 THEN <<Digits[n + 1]>>
  ELSE IntToText(n \div 10) \o <<Digits[(n % 10) + 1]>>

DigitValue(c) == (CHOOSE i \in 1..10 : Digits[i] = c) - 1

IsDigits(s) == \A i \in 1..Len(s) : \E j \in 1..10 : Digits[j] = s[i]

RECURSIVE ParseDigits(_)
ParseDigits(s) ==
  IF s = <<>> THEN 0
  ELSE ParseDigits(SubSeq(s, 1, Len(s) - 1)) * 10 + DigitValue(s[Len(s)])

Pad2(n) == IF n < 10 THEN <<"0">> \o IntToText(n) ELSE IntToText(n)

\* date::text, ISO style (years of four digits)
DateText(d) == IntToText(d.y) \o <<"-">> \o Pad2(d.m) \o <<"-">> \o Pad2(d.d)

DateKey(d) == d.y * 10000 + d.m * 100 + d.d

RECURSIVE StrLess(_, _)
\* s sorts strictly before t
StrLess(s, t) ==
  IF t = <<>> THEN FALSE
  ELSE IF s = <<>> THEN TRUE
  ELSE IF Head(s) = Head(t) THEN StrLess(Tail(s), Tail(t))
  ELSE CharRank(Head(s)) < CharRank(Head(t))

RECURSIVE Like(_, _)
\* s LIKE p with PostgreSQL's wildcards: % any run, _ any one character,
\* backslash makes the next pattern character literal
Like(s, p) ==
  IF p = <<>> THEN s = <<>>
  ELSE IF Head(p) = "%"
    THEN Like(s, Tail(p)) \/ (s # <<>> /\ Like(Tail(s), p))
  ELSE IF Head(p) = "_"
    THEN s # <<>> /\ Like(Tail(s), Tail(p))
  ELSE IF Head(p) = "\\"
    THEN /\ Len(p) >= 2
         /\ s # <<>>
         /\ Head(s) = p[2]
         /\ Like(Tail(s), Tail(Tail(p)))
  ELSE s # <<>> /\ Head(s) = Head(p) /\ Like(Tail(s), Tail(p))

\* s ILIKE p
ILike(s, p) == Like(Lower(s), Lower(p))

\* the bound parameter `%${query}%`
Pattern(query) == <<"%">> \o query \o <<"%">>

(***************************************************************************)
(* JavaScript values: a number (whole part n and hundredths c), a string, *)
(* null and undefined, all records of one shape.                          *)
(***************************************************************************)
JsNum(n) == [t |-> "number", n |-> n, c |-> 0, s |-> <<>>]
JsStr(s) == [t |-> "string", n |-> 0, c |-> 0, s |-> s]
JsNull == [t |-> "null", n |-> 0, c |-> 0, s |-> <<>>]
JsUndefined == [t |-> "undefined", n |-> 0, c |-> 0, s |-> <<>>]
JsNaN == [t |-> "NaN", n |-> 0, c |-> 0, s |-> <<>>]

\* a ?? b
Nullish(a, b) == IF a.t \in {"null", "undefined"} THEN b ELSE a

\* Number(v)
Number(v) ==
  CASE v.t = "number" -> v
    [] v.t = "string" -> IF IsDigits(v.s) THEN JsNum(ParseDigits(v.s)) ELSE JsNaN
    [] v.t = "null" -> JsNum(0)
    [] OTHER -> JsNaN

\* rows[0]?.field, given the field's value in the first row
FirstOr(rows, field) == IF rows = <<>> THEN JsUndefined ELSE rows[1][field]

\* Math.floor in place of Math.ceil
MathFloorDiv(v, d) == IF v.t # "number" THEN JsNaN ELSE JsNum(v.n \div d)

\* Math.ceil(v / d) for a whole number v
MathCeilDiv(v, d) ==
  IF v.t # "number" THEN JsNaN
  ELSE IF v.n % d = 0 THEN JsNum(v.n \div d) ELSE JsNum((v.n \div d) + 1)

\* the amount left in cents
Div100Omitted(v) == v

\* v / 100 for a whole number v
Div100(v) == [t |-> "number", n |-> v.n \div 100, c |-> v.n % 100, s |-> <<>>]

(***************************************************************************)
(* SQL values and how the postgres client hands them to JavaScript: an    *)
(* int4 column as a number, a bigint (COUNT, SUM of int4) as text, since   *)
(* the connection options set no bigint parser.                            *)
(***************************************************************************)
SqlInt(v) == [null |-> FALSE, v |-> v]
SqlNull == [null |-> TRUE, v |-> 0]

Coalesce(a, b) == IF a.null THEN b ELSE a

PgInt4(a) == IF a.null THEN JsNull ELSE JsNum(a.v)
PgInt8(a) == IF a.null THEN JsNull ELSE JsStr(IntToText(a.v))

(***************************************************************************)
(* The tables.                                                            *)
(***************************************************************************)
Paid == <<"p", "a", "i", "d">>
Pending == <<"p", "e", "n", "d", "i", "n", "g">>

CustomerPool ==
  << [id |-> <<"c", "1">>, name |-> <<"A", "l">>,
      email |-> <<"a", "l", "@", "x">>, image_url |-> "/al.png"],
     [id |-> <<"c", "2">>, name |-> <<"B", "o">>,
      email |-> <<"b", "o", "@", "y">>, image_url |-> "/bo.png"] >>

CustomerTables ==
  { <<>>, <<CustomerPool[1]>>, <<CustomerPool[2]>>,
    <<CustomerPool[1], CustomerPool[2]>> }

\* the invoices a table is filled with, up to their ids
InvoiceKinds ==
  << [customer_id |-> <<"c", "1">>, amount |-> 125000,
      date |-> [y |-> 2024, m |-> 1, d |-> 5], status |-> Paid],
     [customer_id |-> <<"c", "1">>, amount |-> 99,
      date |-> [y |-> 2024, m |-> 2, d |-> 11], status |-> Pending],
     [customer_id |-> <<"c", "2">>, amount |-> 4550,
      date |-> [y |-> 2024, m |-> 2, d |-> 11], status |-> Pending] >>

InvoiceId(i) == <<"i">> \o IntToText(i)

MkInvoice(i, k) ==
  [id |-> InvoiceId(i), customer_id |-> InvoiceKinds[k].customer_id,
   amount |-> InvoiceKinds[k].amount, date |-> InvoiceKinds[k].date,
   status |-> InvoiceKinds[k].status]

\* tables of n invoices, one per multiset of kinds
KindSeqs(n) ==
  { s \in [1..n -> 1..Len(InvoiceKinds)] : \A i \in 1..(n - 1) : s[i] <= s[i + 1] }

InvoiceTables ==
  UNION { { [i \in 1..n |-> MkInvoice(i, s[i])] : s \in KindSeqs(n) } :
          n \in 0..MaxInvoices }

\* the reporting table, which nothing here writes
RevenueTable == <<[month |-> "Jan", revenue |-> 2000], [month |-> "Feb", revenue |-> 1800]>>

(***************************************************************************)
(* Arguments the callers pass.                                            *)
(***************************************************************************)
Queries ==
  { <<>>, <<"b", "O">>, <<"P", "A">>, <<"-", "0", "2">>, <<"_">>, <<"z">> }

Pages == 1..MaxPage

LookupIds == { InvoiceId(1), InvoiceId(MaxInvoices), <<"n", "o", "n", "e">> }

(***************************************************************************)
(* State.                                                                 *)
(***************************************************************************)
VARIABLES
  SKIP_DB,    \* process.env.SKIP_DB === 'true'
  sql,        \* the connection handle: "null" or "pool"
  revenue,    \* table revenue
  customers,  \* table customers
  invoices,   \* table invoices
  pc,         \* the caller's place: "idle", "awaiting", "returned" or "threw"
  call,       \* the operation called last and its arguments
  reqs,       \* the (up to three) queries of that call: state and rows
  result,     \* what the call resolved to
  console,    \* labels of the console.error diagnostics of that call
  netUsed,    \* whether any query was ever sent to the database
  pager       \* history: the page count read last and the pages read after it

vars == <<SKIP_DB, sql, revenue, customers, invoices, pc, call, reqs, result,
          console, netUsed, pager>>

tables == <<revenue, customers, invoices>>

(***************************************************************************)
(* The SQL statements, evaluated over the tables.                         *)
(***************************************************************************)
Reverse(s) == [i \in 1..Len(s) |-> s[Len(s) + 1 - i]]

\* the orders in which a scan may meet the rows of a table; ORDER BY leaves
\* rows of equal key in scan order
ScanOrders == {"forward", "backward"}

Scan(table, order) == IF order = "forward" THEN table ELSE Reverse(table)

HasCustomer(inv) == \E j \in 1..Len(customers) : customers[j].id = inv.customer_id

CustomerOf(inv) ==
  customers[CHOOSE j \in 1..Len(customers) : customers[j].id = inv.customer_id]

\* invoices JOIN customers ON invoices.customer_id = customers.id
JoinRow(inv) ==
  [id |-> inv.id, amount |-> inv.amount, date |-> inv.date, status |-> inv.status,
   name |-> CustomerOf(inv).name, email |-> CustomerOf(inv).email,
   image_url |-> CustomerOf(inv).image_url]

Joined(order) ==
  LET matched == SelectSeq(Scan(invoices, order), HasCustomer)
  IN  [i \in 1..Len(matched) |-> JoinRow(matched[i])]

\* the WHERE clause of fetchFilteredInvoices and fetchInvoicesPages
InvoiceWhere(r, query) ==
  \/ ILike(r.name, Pattern(query))
  \/ ILike(r.email, Pattern(query))
  \/ ILike(IntToText(r.amount), Pattern(query))
  \/ ILike(DateText(r.date), Pattern(query))
  \/ ILike(r.status, Pattern(query))

\* the WHERE clause of fetchFilteredCustomers
CustomerWhere(c, query) ==
  \/ ILike(c.name, Pattern(query))
  \/ ILike(c.email, Pattern(query))

RECURSIVE OrderByDateDesc(_)
\* ORDER BY date DESC, rows of equal date staying as they came
OrderByDateDesc(rows) ==
  IF rows = <<>> THEN <<>>
  ELSE LET x == rows[Len(rows)]
           rest == OrderByDateDesc(SubSeq(rows, 1, Len(rows) - 1))
           k == Cardinality({i \in 1..Len(rest) :
                               DateKey(rest[i].date) >= DateKey(x.date)})
       IN  SubSeq(rest, 1, k) \o <<x>> \o SubSeq(rest, k + 1, Len(rest))

RECURSIVE OrderByNameAsc(_)
\* ORDER BY name ASC
OrderByNameAsc(rows) ==
  IF rows = <<>> THEN <<>>
  ELSE LET x == rows[Len(rows)]
           rest == OrderByNameAsc(SubSeq(rows, 1, Len(rows) - 1))
           k == Cardinality({i \in 1..Len(rest) : ~StrLess(x.name, rest[i].name)})
       IN  SubSeq(rest, 1, k) \o <<x>> \o SubSeq(rest, k + 1, Len(rest))

\* LIMIT limit OFFSET offset
LimitOffset(rows, limit, offset) ==
  SubSeq(rows, offset + 1,
         IF offset + limit < Len(rows) THEN offset + limit ELSE Len(rows))

RECURSIVE SumCase(_, _)
\* SUM(CASE WHEN status = st THEN amount ELSE 0 END) over a non-empty run of
\* rows; rows with matched = FALSE are the null rows of a LEFT JOIN
SumCase(rows, st) ==
  IF rows = <<>> THEN 0
  ELSE (IF Head(rows).matched /\ Head(rows).status = st THEN Head(rows).amount ELSE 0)
       + SumCase(Tail(rows), st)

SqlSum(rows, st) == IF rows = <<>> THEN SqlNull ELSE SqlInt(SumCase(rows, st))

\* the rows of an invoice table as SumCase reads them
Matched(inv) == [matched |-> TRUE, status |-> inv.status, amount |-> inv.amount]
NullRow == [matched |-> FALSE, status |-> <<>>, amount |-> 0]

\* SELECT * FROM revenue
SelectRevenue == revenue

\* fetchLatestInvoices' statement
SelectLatestInvoices(order) ==
  LET rows == LimitOffset(OrderByDateDesc(Joined(order)), LATEST_LIMIT, 0)
  IN  [i \in 1..Len(rows) |->
         [amount |-> PgInt4(SqlInt(rows[i].amount)), name |-> rows[i].name,
          image_url |-> rows[i].image_url, email |-> rows[i].email,
          id |-> rows[i].id]]

\* SELECT COUNT(*) AS count FROM invoices
CountInvoices == <<[count |-> PgInt8(SqlInt(Len(invoices)))]>>

\* SELECT COUNT(*) AS count FROM customers
CountCustomers == <<[count |-> PgInt8(SqlInt(Len(customers)))]>>

\* the paid / pending sums of fetchCardData
SumByStatus ==
  LET rows == [i \in 1..Len(invoices) |-> Matched(invoices[i])]
  IN  <<[paid |-> PgInt8(Coalesce(SqlSum(rows, Paid), SqlInt(0))),
         pending |-> PgInt8(Coalesce(SqlSum(rows, Pending), SqlInt(0)))]>>

\* fetchFilteredInvoices' statement
SelectFilteredInvoices(query, offset, order) ==
  LET hit(r) == InvoiceWhere(r, query)
      rows == LimitOffset(OrderByDateDesc(SelectSeq(Joined(order), hit)),
                          ITEMS_PER_PAGE, offset)
  IN  [i \in 1..Len(rows) |->
         [id |-> rows[i].id, amount |-> PgInt4(SqlInt(rows[i].amount)),
          date |-> rows[i].date, status |-> rows[i].status, name |-> rows[i].name,
          email |-> rows[i].email, image_url |-> rows[i].image_url]]

\* fetchInvoicesPages' statement
CountFilteredInvoices(query) ==
  LET hit(r) == InvoiceWhere(r, query)
  IN  <<[count |-> PgInt8(SqlInt(Len(SelectSeq(Joined("forward"), hit))))]>>

\* fetchInvoiceById's statement
SelectInvoiceById(id) ==
  LET hit(inv) == inv.id = id
      rows == SelectSeq(invoices, hit)
  IN  [i \in 1..Len(rows) |->
         [id |-> rows[i].id, customer_id |-> rows[i].customer_id,
          amount |-> PgInt4(SqlInt(rows[i].amount)), status |-> rows[i].status]]

\* fetchCustomers' statement
SelectCustomers ==
  LET rows == OrderByNameAsc(customers)
  IN  [i \in 1..Len(rows) |-> [id |-> rows[i].id, name |-> rows[i].name]]

\* customers LEFT JOIN invoices, the rows of one customer's group
LeftJoinGroup(c) ==
  LET mine(inv) == inv.customer_id = c.id
      own == SelectSeq(invoices, mine)
  IN  IF own = <<>> THEN <<NullRow>> ELSE [i \in 1..Len(own) |-> Matched(own[i])]

\* COUNT(invoices.id) over a group
CountMatched(group) == Cardinality({i \in 1..Len(group) : group[i].matched})

\* fetchFilteredCustomers' statement
SelectFilteredCustomers(query) ==
  LET hit(c) == CustomerWhere(c, query)
      rows == OrderByNameAsc(SelectSeq(customers, hit))
  IN  [i \in 1..Len(rows) |->
         [id |-> rows[i].id, name |-> rows[i].name, email |-> rows[i].email,
          image_url |-> rows[i].image_url,
          total_invoices |-> PgInt8(SqlInt(CountMatched(LeftJoinGroup(rows[i])))),
          total_pending |->
            PgInt8(Coalesce(SqlSum(LeftJoinGroup(rows[i]), Pending), SqlInt(0))),
          total_paid |->
            PgInt8(Coalesce(SqlSum(LeftJoinGroup(rows[i]), Paid), SqlInt(0)))]]

(***************************************************************************)
(* What a call resolves to.                                               *)
(***************************************************************************)
NoCard ==
  [numberOfInvoices |-> JsUndefined, numberOfCustomers |-> JsUndefined,
   totalPaidInvoices |-> JsUndefined, totalPendingInvoices |-> JsUndefined]

ZeroCard ==
  [numberOfInvoices |-> JsNum(0), numberOfCustomers |-> JsNum(0),
   totalPaidInvoices |-> JsNum(0), totalPendingInvoices |-> JsNum(0)]

NoInvoice ==
  [id |-> <<>>, customer_id |-> <<>>, amount |-> JsUndefined, status |-> <<>>]

NoResult ==
  [tag |-> "none", rows |-> <<>>, num |-> JsUndefined, card |-> NoCard,
   inv |-> NoInvoice]

RowsResult(rows) == [NoResult EXCEPT !.tag = "rows", !.rows = rows]
NumResult(v) == [NoResult EXCEPT !.tag = "number", !.num = v]
CardResult(c) == [NoResult EXCEPT !.tag = "card", !.card = c]
InvoiceResult(i) == [NoResult EXCEPT !.tag = "invoice", !.inv = i]
NullResult == [NoResult EXCEPT !.tag = "null"]

Ops ==
  { "fetchRevenue", "fetchLatestInvoices", "fetchCardData", "fetchFilteredInvoices",
    "fetchInvoicesPages", "fetchInvoiceById", "fetchCustomers",
    "fetchFilteredCustomers" }

\* the value of the early return and of the catch block of each function
Default(op) ==
  CASE op = "fetchCardData" -> CardResult(ZeroCard)
    [] op = "fetchInvoicesPages" -> NumResult(JsNum(0))
    [] op = "fetchInvoiceById" -> NullResult
    [] OTHER -> RowsResult(<<>>)

\* the label of each function's console.error
Label(op) ==
  CASE op = "fetchRevenue" -> "DB error (revenue):"
    [] op = "fetchLatestInvoices" -> "DB error (latest invoices):"
    [] op = "fetchCardData" -> "DB error (cards):"
    [] op = "fetchFilteredInvoices" -> "DB error (filtered invoices):"
    [] op = "fetchInvoicesPages" -> "DB error (invoice pages):"
    [] op = "fetchInvoiceById" -> "DB error (invoice by id):"
    [] op = "fetchCustomers" -> "DB error (customers):"
    [] OTHER -> "DB error (filtered customers):"

\* how a function leaves: the value it resolves to, what it logged, and
\* whether it rejected instead of resolving
Return(v) == [result |-> v, console |-> <<>>, threw |-> FALSE]

\* a catch block that logs and throws again
CatchRethrow(op) == [result |-> NoResult, console |-> <<Label(op)>>, threw |-> TRUE]

\* catch (error) { console.error(label, error); return default }
Catch(op) == [result |-> Default(op), console |-> <<Label(op)>>, threw |-> FALSE]

(***************************************************************************)
(* The connection and the queries in flight.                              *)
(***************************************************************************)
\* the connection made whatever SKIP_DB says
SqlHandleAlways(skip) == "pool"

\* const sql = SKIP_DB ? null : postgres(...)
SqlHandle(skip) == IF skip THEN "null" ELSE "pool"

\* if (SKIP_DB || !sql)
SkipGuard == SKIP_DB \/ sql = "null"

NoReq == [state |-> "none", rows |-> <<>>]

NoReqs == [i \in 1..3 |-> NoReq]

\* the first n queries sent
Issue(n) == [i \in 1..3 |-> IF i <= n THEN [state |-> "inflight", rows |-> <<>>] ELSE NoReq]

InFlight == {i \in 1..3 : reqs[i].state = "inflight"}

\* first-to-finish in place of Promise.all
PromiseRace(rs, n) ==
  IF \E i \in 1..n : rs[i].state = "failed" THEN "rejected"
  ELSE IF \E i \in 1..n : rs[i].state = "ok" THEN "fulfilled"
  ELSE "pending"

\* Promise.all over the first n queries: rejected once one is, fulfilled once
\* all are
PromiseAll(rs, n) ==
  IF \E i \in 1..n : rs[i].state = "failed" THEN "rejected"
  ELSE IF \A i \in 1..n : rs[i].state = "ok" THEN "fulfilled"
  ELSE "pending"

\* await of a single query
Await(r) ==
  CASE r.state = "failed" -> "rejected"
    [] r.state = "ok" -> "fulfilled"
    [] OTHER -> "pending"

\* the offset one page too far
OffsetOffByOne(currentPage) == currentPage * ITEMS_PER_PAGE

\* const offset = (currentPage - 1) * ITEMS_PER_PAGE
Offset(currentPage) == (currentPage - 1) * ITEMS_PER_PAGE

\* the rows the database answers query i of the call with
Execute(c, i, order) ==
  CASE c.op = "fetchRevenue" -> SelectRevenue
    [] c.op = "fetchLatestInvoices" -> SelectLatestInvoices(order)
    [] c.op = "fetchCardData" ->
         (CASE i = 1 -> CountInvoices [] i = 2 -> CountCustomers [] OTHER -> SumByStatus)
    [] c.op = "fetchFilteredInvoices" ->
         SelectFilteredInvoices(c.query, Offset(c.page), order)
    [] c.op = "fetchInvoicesPages" -> CountFilteredInvoices(c.query)
    [] c.op = "fetchInvoiceById" -> SelectInvoiceById(c.id)
    [] c.op = "fetchCustomers" -> SelectCustomers
    [] OTHER -> SelectFilteredCustomers(c.query)

(***************************************************************************)
(* Each function after its await: the try block's return or the catch.    *)
(***************************************************************************)
fetchRevenue_after(r) ==
  IF Await(r) = "rejected" THEN Catch("fetchRevenue") ELSE Return(RowsResult(r.rows))

fetchLatestInvoices_after(r) ==
  IF Await(r) = "rejected" THEN Catch("fetchLatestInvoices")
  ELSE Return(RowsResult(r.rows))

\* each field falling back on its own
fetchCardData_perField(rs) ==
  Return(CardResult(
    [numberOfInvoices |-> Number(Nullish(FirstOr(rs[1].rows, "count"), JsNum(0))),
     numberOfCustomers |-> Number(Nullish(FirstOr(rs[2].rows, "count"), JsNum(0))),
     totalPaidInvoices |-> Number(Nullish(FirstOr(rs[3].rows, "paid"), JsNum(0))),
     totalPendingInvoices |->
       Number(Nullish(FirstOr(rs[3].rows, "pending"), JsNum(0)))]))

fetchCardData_after(rs) ==
  IF PromiseAll(rs, 3) = "rejected" THEN Catch("fetchCardData")
  ELSE Return(CardResult(
         [numberOfInvoices |-> Number(Nullish(FirstOr(rs[1].rows, "count"), JsNum(0))),
          numberOfCustomers |-> Number(Nullish(FirstOr(rs[2].rows, "count"), JsNum(0))),
          totalPaidInvoices |-> Number(Nullish(FirstOr(rs[3].rows, "paid"), JsNum(0))),
          totalPendingInvoices |->
            Number(Nullish(FirstOr(rs[3].rows, "pending"), JsNum(0)))]))

fetchFilteredInvoices_after(r) ==
  IF Await(r) = "rejected" THEN Catch("fetchFilteredInvoices")
  ELSE Return(RowsResult(r.rows))

fetchInvoicesPages_after(r) ==
  IF Await(r) = "rejected" THEN Catch("fetchInvoicesPages")
  ELSE Return(NumResult(
         MathCeilDiv(Number(Nullish(FirstOr(r.rows, "count"), JsNum(0))),
                     ITEMS_PER_PAGE)))

fetchInvoiceById_after(r) ==
  IF Await(r) = "rejected" THEN Catch("fetchInvoiceById")
  ELSE IF r.rows = <<>> THEN Return(NullResult)
  ELSE Return(InvoiceResult([r.rows[1] EXCEPT !.amount = Div100(r.rows[1].amount)]))

fetchCustomers_after(r) ==
  IF Await(r) = "rejected" THEN Catch("fetchCustomers") ELSE Return(RowsResult(r.rows))

\* data.map: total_pending and total_paid go through Number, the other
\* fields are spread as they came
fetchFilteredCustomers_after(r) ==
  IF Await(r) = "rejected" THEN Catch("fetchFilteredCustomers")
  ELSE Return(RowsResult(
         [i \in 1..Len(r.rows) |->
            [r.rows[i] EXCEPT
               !.total_pending = Number(Nullish(r.rows[i].total_pending, JsNum(0))),
               !.total_paid = Number(Nullish(r.rows[i].total_paid, JsNum(0)))]]))

(***************************************************************************)
(* History for the pagination property: the page count a successful       *)
(* fetchInvoicesPages(query) returned, and the number of rows of pages     *)
(* 1, 2, ... of the same query fetched successfully right after it.        *)
(***************************************************************************)
NoPager == [on |-> FALSE, query |-> <<>>, pages |-> 0, counts |-> <<>>]

PagerOnCall(op, query, page) ==
  IF /\ op = "fetchFilteredInvoices"
     /\ ~SkipGuard
     /\ pager.on
     /\ pager.query = query
     /\ page = Len(pager.counts) + 1
  THEN pager
  ELSE NoPager

PagerOnReturn(op, out) ==
  IF out.console # <<>> THEN NoPager
  ELSE IF op = "fetchInvoicesPages"
    THEN [on |-> TRUE, query |-> call.query, pages |-> out.result.num.n,
          counts |-> <<>>]
  ELSE IF op = "fetchFilteredInvoices" /\ pager.on
    THEN [pager EXCEPT !.counts = Append(@, Len(out.result.rows))]
  ELSE NoPager

(***************************************************************************)
(* Initial state: the module has been loaded.                             *)
(***************************************************************************)
NoCall == [op |-> "none", query |-> <<>>, page |-> 1, id |-> <<>>]

Init ==
  /\ SKIP_DB \in BOOLEAN
  /\ sql = SqlHandle(SKIP_DB)
  /\ revenue = RevenueTable
  /\ customers \in CustomerTables
  /\ invoices \in InvoiceTables
  /\ pc = "idle"
  /\ call = NoCall
  /\ reqs = NoReqs
  /\ result = NoResult
  /\ console = <<>>
  /\ netUsed = FALSE
  /\ pager = NoPager

(***************************************************************************)
(* A call up to its first await.  The caller makes one call at a time and  *)
(* starts the next when no query of the last is still in flight.           *)
(***************************************************************************)
Enter(op, query, page, id, n) ==
  /\ pc # "awaiting"
  /\ InFlight = {}
  /\ call' = [op |-> op, query |-> query, page |-> page, id |-> id]
  /\ console' = <<>>
  /\ pager' = PagerOnCall(op, query, page)
  /\ IF SkipGuard
       THEN /\ pc' = "returned"
            /\ result' = Default(op)
            /\ reqs' = NoReqs
            /\ netUsed' = netUsed
       ELSE /\ pc' = "awaiting"
            /\ result' = NoResult
            /\ reqs' = Issue(n)
            /\ netUsed' = TRUE
  /\ UNCHANGED <<SKIP_DB, sql, tables>>

\* the rest of a call, once what it awaits has settled
Leave(op, settled, out) ==
  /\ pc = "awaiting"
  /\ call.op = op
  /\ settled # "pending"
  /\ pc' = IF out.threw THEN "threw" ELSE "returned"
  /\ result' = out.result
  /\ console' = console \o out.console
  /\ pager' = PagerOnReturn(op, out)
  /\ UNCHANGED <<SKIP_DB, sql, tables, call, reqs, netUsed>>

fetchRevenue_call == Enter("fetchRevenue", <<>>, 1, <<>>, 1)

fetchRevenue_resume ==
  Leave("fetchRevenue", Await(reqs[1]), fetchRevenue_after(reqs[1]))

fetchLatestInvoices_call == Enter("fetchLatestInvoices", <<>>, 1, <<>>, 1)

fetchLatestInvoices_resume ==
  Leave("fetchLatestInvoices", Await(reqs[1]), fetchLatestInvoices_after(reqs[1]))

fetchCardData_call == Enter("fetchCardData", <<>>, 1, <<>>, 3)

fetchCardData_resume ==
  Leave("fetchCardData", PromiseAll(reqs, 3), fetchCardData_after(reqs))

fetchFilteredInvoices_call ==
  \E query \in Queries, currentPage \in Pages :
    Enter("fetchFilteredInvoices", query, currentPage, <<>>, 1)

fetchFilteredInvoices_resume ==
  Leave("fetchFilteredInvoices", Await(reqs[1]), fetchFilteredInvoices_after(reqs[1]))

fetchInvoicesPages_call ==
  \E query \in Queries : Enter("fetchInvoicesPages", query, 1, <<>>, 1)

fetchInvoicesPages_resume ==
  Leave("fetchInvoicesPages", Await(reqs[1]), fetchInvoicesPages_after(reqs[1]))

fetchInvoiceById_call ==
  \E id \in LookupIds : Enter("fetchInvoiceById", <<>>, 1, id, 1)

fetchInvoiceById_resume ==
  Leave("fetchInvoiceById", Await(reqs[1]), fetchInvoiceById_after(reqs[1]))

fetchCustomers_call == Enter("fetchCustomers", <<>>, 1, <<>>, 1)

fetchCustomers_resume ==
  Leave("fetchCustomers", Await(reqs[1]), fetchCustomers_after(reqs[1]))

fetchFilteredCustomers_call ==
  \E query \in Queries : Enter("fetchFilteredCustomers", query, 1, <<>>, 1)

fetchFilteredCustomers_resume ==
  Leave("fetchFilteredCustomers", Await(reqs[1]),
        fetchFilteredCustomers_after(reqs[1]))

(***************************************************************************)
(* The database answers a query in flight, or the query fails.            *)
(***************************************************************************)
QueryResolves ==
  \E i \in InFlight, order \in ScanOrders :
    /\ reqs' = [reqs EXCEPT ![i] = [state |-> "ok", rows |-> Execute(call, i, order)]]
    /\ UNCHANGED <<SKIP_DB, sql, tables, pc, call, result, console, netUsed, pager>>

QueryFails ==
  \E i \in InFlight :
    /\ reqs' = [reqs EXCEPT ![i] = [state |-> "failed", rows |-> <<>>]]
    /\ UNCHANGED <<SKIP_DB, sql, tables, pc, call, result, console, netUsed, pager>>

Next ==
  \/ fetchRevenue_call
  \/ fetchRevenue_resume
  \/ fetchLatestInvoices_call
  \/ fetchLatestInvoices_resume
  \/ fetchCardData_call
  \/ fetchCardData_resume
  \/ fetchFilteredInvoices_call
  \/ fetchFilteredInvoices_resume
  \/ fetchInvoicesPages_call
  \/ fetchInvoicesPages_resume
  \/ fetchInvoiceById_call
  \/ fetchInvoiceById_resume
  \/ fetchCustomers_call
  \/ fetchCustomers_resume
  \/ fetchFilteredCustomers_call
  \/ fetchFilteredCustomers_resume
  \/ QueryResolves
  \/ QueryFails

Spec == Init /\ [][Next]_vars

(***************************************************************************)
(* Properties.                                                            *)
(***************************************************************************)
Finished == pc \in {"returned", "threw"}

Failed == {i \in 1..3 : reqs[i].state = "failed"}

Succeeded(op) == pc = "returned" /\ call.op = op /\ reqs[1].state = "ok"

\* C1: with skip-database mode off, a call one of whose queries failed has
\* resolved (not thrown) to the default of its operation and has written
\* that operation's diagnostic to the console; this for all eight operations.
C1_FailureResolvesToDefault ==
  (Finished /\ ~SKIP_DB /\ Failed # {}) =>
    /\ pc = "returned"
    /\ call.op \in Ops
    /\ result = Default(call.op)
    /\ console = <<Label(call.op)>>

\* fetchInvoiceById returned after its query failed
C1_Witness ==
  /\ pc = "returned"
  /\ ~SKIP_DB
  /\ call.op = "fetchInvoiceById"
  /\ reqs[1].state = "failed"
  /\ result = NullResult
  /\ console # <<>>

\* C2: under SKIP_DB the connection is never created, no query is ever
\* sent or in flight, and every call made has resolved to the default of its
\* operation, whatever its arguments and whatever calls came before.
C2_SkipDatabaseDoesNoIO ==
  SKIP_DB =>
    /\ sql = "null"
    /\ ~netUsed
    /\ \A i \in 1..3 : reqs[i].state = "none"
    /\ pc \in {"idle", "returned"}
    /\ pc = "returned" => (call.op \in Ops /\ result = Default(call.op))

\* fetchCardData called under SKIP_DB after an earlier call
C2_Witness ==
  /\ SKIP_DB
  /\ pc = "returned"
  /\ call.op = "fetchCardData"
  /\ result = CardResult(ZeroCard)
  /\ invoices # <<>>

\* C3: when fetchCardData has returned and one of its three queries failed,
\* all four fields of the aggregate are 0, whichever query failed and
\* whatever the others answered.
C3_CardDataAllOrNothing ==
  (pc = "returned" /\ call.op = "fetchCardData" /\ Failed # {}) =>
    /\ result.tag = "card"
    /\ result.card.numberOfInvoices = JsNum(0)
    /\ result.card.numberOfCustomers = JsNum(0)
    /\ result.card.totalPaidInvoices = JsNum(0)
    /\ result.card.totalPendingInvoices = JsNum(0)

\* the customer count failed after the two other queries had answered with
\* counts and sums that are not zero
C3_Witness ==
  /\ pc = "returned"
  /\ call.op = "fetchCardData"
  /\ reqs[1].state = "ok"
  /\ reqs[2].state = "failed"
  /\ reqs[3].state = "ok"
  /\ reqs[1].rows[1].count # JsStr(<<"0">>)
  /\ reqs[3].rows[1].paid # JsStr(<<"0">>)

\* C4 as stated: fetchCardData never has returned while one of its three
\* queries is still in flight, a failed query or not.
C4_NeverReturnsWhileInFlight ==
  (Finished /\ call.op = "fetchCardData") => InFlight = {}

\* C4 as amended: fetchCardData sends its three queries together, and has
\* returned only when all three succeeded or when one has failed; with a
\* query still in flight it has returned only the all-zero default, after a
\* failure.
C4_JoinUnlessOneFailed ==
  /\ (pc = "awaiting" /\ call.op = "fetchCardData") =>
       \A i \in 1..3 : reqs[i].state # "none"
  /\ (Finished /\ call.op = "fetchCardData" /\ ~SkipGuard) =>
       \/ \A i \in 1..3 : reqs[i].state = "ok"
       \/ Failed # {} /\ result = Default("fetchCardData")

\* fetchCardData returned on a failure with another query still in flight
C4_Witness ==
  /\ pc = "returned"
  /\ call.op = "fetchCardData"
  /\ InFlight # {}
  /\ Failed # {}

\* the rows of invoices JOIN customers that the WHERE clause keeps for a query
MatchingInvoices(query) ==
  {i \in 1..Len(invoices) :
     HasCustomer(invoices[i]) /\ InvoiceWhere(JoinRow(invoices[i]), query)}

\* the least k with k * d >= n
CeilOf(n, d) == CHOOSE k \in 0..n : k * d >= n /\ (k = 0 \/ (k - 1) * d < n)

\* C5: when its count query succeeds, fetchInvoicesPages(q) is the least
\* number of pages of 6 that hold the joined rows matching q, and 0 when
\* none matches.
C5_PagesIsCeiling ==
  Succeeded("fetchInvoicesPages") =>
    LET n == Cardinality(MatchingInvoices(call.query))
    IN  /\ result = NumResult(JsNum(CeilOf(n, 6)))
        /\ n = 0 => result.num = JsNum(0)

\* seven matching rows make two pages
C5_Witness ==
  /\ Succeeded("fetchInvoicesPages")
  /\ Cardinality(MatchingInvoices(call.query)) = 7
  /\ result.num = JsNum(2)

\* s contains q, letter case aside
Contains(s, q) ==
  \E i \in 0..(Len(s) - Len(q)) : SubSeq(Lower(s), i + 1, i + Len(q)) = Lower(q)

\* the substring predicate over the five columns
SubstringMatch(r, q) ==
  \/ Contains(r.name, q)
  \/ Contains(r.email, q)
  \/ Contains(IntToText(r.amount), q)
  \/ Contains(DateText(r.date), q)
  \/ Contains(r.status, q)

\* C6: fetchFilteredInvoices(q, page) returns at most 6 rows, each row
\* contains q (letter case aside) in its name, email, amount as text, date as
\* text or status, and the rows are those at places (page-1)*6+1 ..
\* (page-1)*6+6 of the rows containing q, ordered by date descending.
C6_FilteredInvoicesBySubstring ==
  Succeeded("fetchFilteredInvoices") =>
    /\ Len(result.rows) <= 6
    /\ \A i \in 1..Len(result.rows) :
         SubstringMatch([result.rows[i] EXCEPT !.amount = @.n], call.query)
    /\ \E order \in ScanOrders :
         LET hit(r) == SubstringMatch(r, call.query)
             all == OrderByDateDesc(SelectSeq(Joined(order), hit))
             from == (call.page - 1) * 6
         IN  /\ Len(result.rows) = Cardinality({j \in 1..Len(all) : from < j /\ j <= from + 6})
             /\ \A i \in 1..Len(result.rows) : result.rows[i].id = all[from + i].id

\* C7: fetchInvoiceById(id) is null when no invoice has that id, and
\* otherwise that invoice's id, customer_id and status with amount the
\* stored cents divided by 100 (125000 gives 1250).
C7_InvoiceById ==
  Succeeded("fetchInvoiceById") =>
    LET found == {i \in 1..Len(invoices) : invoices[i].id = call.id}
    IN  /\ found = {} => (result = NullResult /\ console = <<>>)
        /\ \A i \in found :
             /\ result.tag = "invoice"
             /\ result.inv.id = invoices[i].id
             /\ result.inv.customer_id = invoices[i].customer_id
             /\ result.inv.status = invoices[i].status
             /\ result.inv.amount.t = "number"
             /\ result.inv.amount.c \in 0..99
             /\ result.inv.amount.n * 100 + result.inv.amount.c = invoices[i].amount
             /\ invoices[i].amount = 125000 => result.inv.amount = JsNum(1250)

\* an invoice of 125000 cents read as 1250
C7_Witness ==
  /\ Succeeded("fetchInvoiceById")
  /\ \E i \in 1..Len(invoices) : invoices[i].id = call.id /\ invoices[i].amount = 125000
  /\ result.inv.amount = JsNum(1250)

\* C8: every customer whose name or email contains q is in the result of
\* fetchFilteredCustomers(q), and one without invoices has total_invoices,
\* total_pending and total_paid equal to the number 0.
C8_CustomersWithoutInvoices ==
  Succeeded("fetchFilteredCustomers") =>
    \A j \in 1..Len(customers) :
      (Contains(customers[j].name, call.query) \/ Contains(customers[j].email, call.query)) =>
        \E i \in 1..Len(result.rows) :
          /\ result.rows[i].id = customers[j].id
          /\ (\A k \in 1..Len(invoices) : invoices[k].customer_id # customers[j].id) =>
               /\ result.rows[i].total_invoices = JsNum(0)
               /\ result.rows[i].total_pending = JsNum(0)
               /\ result.rows[i].total_paid = JsNum(0)

\* C9: in every row fetchFilteredCustomers returns, total_invoices,
\* total_pending and total_paid are numbers, none the client's text.
C9_AggregatesAreNumbers ==
  Succeeded("fetchFilteredCustomers") =>
    \A i \in 1..Len(result.rows) :
      /\ result.rows[i].total_invoices.t = "number"
      /\ result.rows[i].total_pending.t = "number"
      /\ result.rows[i].total_paid.t = "number"

RECURSIVE SumOf(_)
SumOf(s) == IF s = <<>> THEN 0 ELSE Head(s) + SumOf(Tail(s))

\* C10: after fetchInvoicesPages(q) = P, with every query succeeding, page p
\* of fetchFilteredInvoices(q, p) is non-empty for p <= P, empty for p > P,
\* holds exactly 6 rows for p < P, and pages 1..P together hold as many rows
\* as match q.
C10_PaginationConsistent ==
  pager.on =>
    LET P == pager.pages
        k == Len(pager.counts)
    IN  /\ \A p \in 1..k :
             /\ p <= P => pager.counts[p] > 0
             /\ p > P => pager.counts[p] = 0
             /\ p < P => pager.counts[p] = 6
        /\ k >= P =>
             SumOf(SubSeq(pager.counts, 1, P)) = Cardinality(MatchingInvoices(pager.query))

\* two pages counted, then pages 1, 2 and 3 read
C10_Witness ==
  /\ pager.on
  /\ pager.pages = 2
  /\ Len(pager.counts) = 3
  /\ pager.counts[2] > 0

====
